---- MODULE Spec2Model ----
(***************************************************************************)
(* Model of the video-job API of src/main.py: the create / get / list      *)
(* request handlers, the background thread simulate_job that create        *)
(* starts for each persisted job, and the "videojob" collection they       *)
(* share.                                                                  *)
(*                                                                         *)
(* Conventions.                                                            *)
(*   Optional[T]   None is << >>, a present value x is << x >>.            *)
(*   str           a text whose characters do not matter is the record     *)
(*                 [src |-> name, len |-> n]: the first n characters of    *)
(*                 the named text; s[:k] shortens len to at most k.        *)
(*   JSON body     a function from the field names the client sent to      *)
(*                 their values; a field that was not sent is not in its   *)
(*                 DOMAIN.                                                 *)
(*   ObjectId      the natural number n; its string form is <<"hex", n>>.  *)
(*   datetime      the natural number n; isoformat() is <<"iso", n>>.      *)
(*   store fault   every call on the collection either takes effect and    *)
(*                 returns, or raises one of StoreErrors without effect.   *)
(***************************************************************************)
EXTENDS Integers, Sequences, FiniteSets, TLC

(***************************************************************************)
(* Bounds of the model.                                                    *)
(***************************************************************************)
\* the number of jobs create may persist while clients poll and jobs run (Spec)
MaxJobs == 2

\* the number of jobs create may persist when every request body, or every
\* duration, is tried (SpecCreate, SpecWait)
MaxCreateJobs == 1

(***************************************************************************)
(* Values.                                                                 *)
(***************************************************************************)
None == << >>

Some(x) == << x >>

IsNone(o) == o = << >>

\* Python truthiness of an Optional[str]
TruthyStr(o) == o # None /\ o[1] # ""

\* Python truthiness of an Optional[int]
TruthyInt(o) == o # None /\ o[1] # 0

\* Python truthiness of an Optional[List]
TruthyList(o) == o # None /\ Len(o[1]) > 0

Min(a, b) == IF a < b THEN a ELSE b

Max(a, b) == IF a > b THEN a ELSE b

Text(name, n) == [src |-> name, len |-> n]

\* s[:k]
Prefix(s, k) == [s EXCEPT !.len = Min(@, k)]

\* d.update(s) on records
Merge(d, s) == [f \in DOMAIN d \cup DOMAIN s |-> IF f \in DOMAIN s THEN s[f] ELSE d[f]]

\* d.pop(k, None) on records
Pop(d, k) == [f \in DOMAIN d \ {k} |-> d[f]]

\* body.get(k, default)
FieldOr(body, k, default) == IF k \in DOMAIN body THEN body[k] ELSE default

(***************************************************************************)
(* Identifiers and timestamps.                                             *)
(***************************************************************************)
\* str(ObjectId)
StrOfObjectId(oid) == <<"hex", oid>>

\* ObjectId(s) succeeds exactly on the 24-digit hex strings
ObjectIdValid(s) == s[1] = "hex"

\* ObjectId(s) of a valid string
ObjectIdOf(s) == s[2]

\* datetime.isoformat()
IsoFormat(t) == <<"iso", t>>

(***************************************************************************)
(* The request model CreateJobRequest and the handler's checks.            *)
(***************************************************************************)
Providers == {"gemini", "wan2_1", "grok", "hailuo", "sora2"}

Modes == {"text_to_video", "image_sequence_to_video", "multi_image_guided"}

AspectRatios == {"16:9", "9:16", "1:1", "4:3"}

PromptMinLen == 3

PromptMaxLen == 2000

DurationMin == 1

DurationMax == 60

FpsMin == 1

FpsMax == 60

DefaultDuration == 5

DefaultFps == 24

\* the field constraints of CreateJobRequest: the framework answers 422 before
\* the handler runs when the body violates them
CreateJobRequestValid(body) ==
    /\ "provider" \in DOMAIN body /\ body.provider \in Providers
    /\ "prompt" \in DOMAIN body
    /\ body.prompt.len >= PromptMinLen /\ body.prompt.len <= PromptMaxLen
    /\ "mode" \in DOMAIN body => body.mode \in Modes
    /\ "aspect_ratio" \in DOMAIN body => body.aspect_ratio \in AspectRatios
    /\ "duration" \in DOMAIN body =>
           body.duration >= DurationMin /\ body.duration <= DurationMax
    /\ "fps" \in DOMAIN body =>
           IF IsNone(body.fps) THEN TRUE
           ELSE body.fps[1] >= FpsMin /\ body.fps[1] <= FpsMax

\* CreateJobRequest(**body): the fields sent, and the declared default of each
\* field that was not
CreateJobRequest(body) ==
    [provider     |-> body.provider,
     mode         |-> FieldOr(body, "mode", "text_to_video"),
     prompt       |-> body.prompt,
     aspect_ratio |-> FieldOr(body, "aspect_ratio", "16:9"),
     duration     |-> FieldOr(body, "duration", DefaultDuration),
     image_urls   |-> FieldOr(body, "image_urls", None),
     fps          |-> FieldOr(body, "fps", Some(DefaultFps)),
     api_keys     |-> FieldOr(body, "api_keys", None)]

provider_env_map == [hailuo |-> "HAILUO_API_KEY", sora2 |-> "SORA_API_KEY"]

EnvVars == {"HAILUO_API_KEY", "SORA_API_KEY"}

\* api_keys.get(provider) when api_keys is truthy (not None, not {}), else None
ReqVal(provider, api_keys) ==
    IF api_keys # None /\ DOMAIN api_keys[1] # {} /\ provider \in DOMAIN api_keys[1]
    THEN Some(api_keys[1][provider])
    ELSE None

\* mutant of require_provider_key: a variable set to the empty string counts as a key
require_provider_key_env_set(provider, api_keys, environ) ==
    IF provider \notin DOMAIN provider_env_map
    THEN FALSE
    ELSE ~(environ[provider_env_map[provider]] # None
           \/ TruthyStr(ReqVal(provider, api_keys)))

\* TRUE when _require_provider_key raises its 422
require_provider_key(provider, api_keys, environ) ==
    IF provider \notin DOMAIN provider_env_map
    THEN FALSE
    ELSE ~(TruthyStr(environ[provider_env_map[provider]])
           \/ TruthyStr(ReqVal(provider, api_keys)))

\* f"API key required for provider '{provider}'. Provide via {env_var} or
\* api_keys.{provider}", for the two providers that have an env_var
CredentialDetail(provider) ==
    IF provider = "hailuo"
    THEN "API key required for provider 'hailuo'. Provide via HAILUO_API_KEY or api_keys.hailuo"
    ELSE "API key required for provider 'sora2'. Provide via SORA_API_KEY or api_keys.sora2"

HTTPException(code, kind, detail) == [status_code |-> code, kind |-> kind, detail |-> detail]

Passed == [status_code |-> 200, kind |-> "ok", detail |-> ""]

\* mutant of create_job_checks: image_urls is only tested against None, so an
\* empty list passes
create_job_checks_none_only(payload, dbv, environ) ==
    IF dbv = "none"
    THEN HTTPException(500, "StoreUnavailableError", "Database not configured")
    ELSE IF require_provider_key(payload.provider, payload.api_keys, environ)
    THEN HTTPException(422, "CredentialMissingError", CredentialDetail(payload.provider))
    ELSE IF payload.mode # "text_to_video" /\ payload.image_urls = None
    THEN HTTPException(422, "MissingInputError", "image_urls is required for selected mode")
    ELSE IF payload.mode = "image_sequence_to_video" /\ ~TruthyInt(payload.fps)
    THEN HTTPException(422, "MissingInputError", "fps is required for image sequence mode")
    ELSE Passed

\* the checks in another order: the mode inputs before the credential, and fps
\* before image_urls
create_job_checks_mode_first(payload, dbv, environ) ==
    IF dbv = "none"
    THEN HTTPException(500, "StoreUnavailableError", "Database not configured")
    ELSE IF payload.mode = "image_sequence_to_video" /\ ~TruthyInt(payload.fps)
    THEN HTTPException(422, "MissingInputError", "fps is required for image sequence mode")
    ELSE IF payload.mode # "text_to_video" /\ ~TruthyList(payload.image_urls)
    THEN HTTPException(422, "MissingInputError", "image_urls is required for selected mode")
    ELSE IF require_provider_key(payload.provider, payload.api_keys, environ)
    THEN HTTPException(422, "CredentialMissingError", CredentialDetail(payload.provider))
    ELSE Passed

\* the checks of create_job before it persists anything, in the handler's order
create_job_checks(payload, dbv, environ) ==
    IF dbv = "none"
    THEN HTTPException(500, "StoreUnavailableError", "Database not configured")
    ELSE IF require_provider_key(payload.provider, payload.api_keys, environ)
    THEN HTTPException(422, "CredentialMissingError", CredentialDetail(payload.provider))
    ELSE IF payload.mode # "text_to_video" /\ ~TruthyList(payload.image_urls)
    THEN HTTPException(422, "MissingInputError", "image_urls is required for selected mode")
    ELSE IF payload.mode = "image_sequence_to_video" /\ ~TruthyInt(payload.fps)
    THEN HTTPException(422, "MissingInputError", "fps is required for image sequence mode")
    ELSE Passed

\* the model dump stored with the keys the request sent
NewJobDataKeepKeys(payload) ==
    Merge(payload, [status |-> "queued", result_url |-> None, error |-> None])

\* data = payload.model_dump(); data.pop("api_keys"); data.update(status ...)
NewJobData(payload) ==
    Merge(Pop(payload, "api_keys"),
          [status |-> "queued", result_url |-> None, error |-> None])

(***************************************************************************)
(* The collection db["videojob"].                                          *)
(***************************************************************************)
\* create_document(collection, data): stamps and inserts the document
create_document(coll, data) ==
    Append(coll, Merge(data, [_id        |-> Len(coll) + 1,
                              created_at |-> Len(coll) + 1,
                              updated_at |-> Len(coll) + 1]))

\* a lookup that ignores the filter: the first document of the collection
find_one_any(coll, oid) ==
    IF coll = << >> THEN None ELSE Some(coll[1])

\* collection.find_one({"_id": oid})
find_one(coll, oid) ==
    IF \E i \in DOMAIN coll : coll[i]._id = oid
    THEN Some(coll[CHOOSE i \in DOMAIN coll : coll[i]._id = oid])
    ELSE None

\* collection.replace_one({"_id": oid}, fields): the document becomes the fields
replace_one(coll, oid, fields) ==
    [i \in DOMAIN coll |->
        IF coll[i]._id = oid THEN Merge([_id |-> oid], fields) ELSE coll[i]]

\* collection.update_many({}, {"$set": fields}): every document is updated
update_many(coll, oid, fields) ==
    [i \in DOMAIN coll |-> Merge(coll[i], fields)]

\* collection.update_one({"_id": oid}, {"$set": fields})
update_one(coll, oid, fields) ==
    [i \in DOMAIN coll |-> IF coll[i]._id = oid THEN Merge(coll[i], fields) ELSE coll[i]]

\* to_str_id(doc): _id becomes the string id, datetimes their isoformat
to_str_id(doc) ==
    [f \in (DOMAIN doc \ {"_id"}) \cup {"id"} |->
        IF f = "id" THEN StrOfObjectId(doc._id)
        ELSE IF f \in {"created_at", "updated_at"} THEN IsoFormat(doc[f])
        ELSE doc[f]]

JobResponseFields ==
    {"id", "provider", "mode", "prompt", "aspect_ratio", "duration", "fps",
     "image_urls", "status", "result_url", "error", "created_at", "updated_at"}

\* JobResponse(**d): the declared fields only (others are ignored)
JobResponse(d) == [f \in DOMAIN d \cap JobResponseFields |-> d[f]]

(***************************************************************************)
(* State.                                                                  *)
(***************************************************************************)
VARIABLES
    db,        \* the module's handle: "none" (db is None) or "handle"
    environ,   \* os.environ on EnvVars: each unset (None) or set to a string
    videojob,  \* the collection: the job documents, in insertion order
    threads,   \* the simulate_job threads started so far, in start order
    calls,     \* the create_job calls that have persisted their job and not yet
               \* returned, each with the statement it is at (pc)
    resp       \* the response of the step just taken (NoResp when it returned none)

vars == <<db, environ, videojob, threads, calls, resp>>

NoResp == [op |-> "none"]

\* what a raising store call raises: its message is short, or longer than ErrorMaxLen
StoreErrors == {Text("connection refused", 18), Text("ServerSelectionTimeoutError", 250)}

ErrorMaxLen == 200

DemoUrl == Text("https://commondatastorage.googleapis.com/gtv-videos-bucket/sample/BigBuckBunny.mp4", 82)

\* the environments the process may have been started in
Environments ==
    { [HAILUO_API_KEY |-> None,       SORA_API_KEY |-> None],
      [HAILUO_API_KEY |-> Some(""),   SORA_API_KEY |-> Some("sk")],
      [HAILUO_API_KEY |-> Some("hk"), SORA_API_KEY |-> None] }

Init ==
    /\ db \in {"none", "handle"}
    /\ environ \in Environments
    /\ videojob = << >>
    /\ threads = << >>
    /\ calls = {}
    /\ resp = NoResp

(***************************************************************************)
(* create_job.                                                             *)
(***************************************************************************)
CreateResp(body, exc) ==
    [op |-> "create", req |-> body, status_code |-> exc.status_code,
     kind |-> exc.kind, detail |-> exc.detail]

\* threading.Thread(target=simulate_job, args=(job_id, provider, duration))
NewThread(job_id, payload) ==
    [job_id |-> job_id, provider |-> payload.provider, duration |-> payload.duration,
     pc |-> "mark_processing", exc |-> None, wait_time |-> None]

\* a create_job call whose create_document has returned job_id
NewCall(job_id, body) == [job_id |-> job_id, body |-> body, pc |-> "start"]

\* mutant of CreateJob: the mode inputs are checked after the job was persisted
CreateJobChecksAfterInsert(body, cap) ==
    IF ~CreateJobRequestValid(body)
    THEN /\ resp' = CreateResp(body, HTTPException(422, "ValidationError", "invalid body"))
         /\ UNCHANGED <<db, environ, videojob, threads, calls>>
    ELSE LET payload == CreateJobRequest(body)
             checked == create_job_checks(payload, db, environ)
             job_id  == StrOfObjectId(Len(videojob) + 1)
         IN IF checked.kind \in {"StoreUnavailableError", "CredentialMissingError"}
            THEN /\ resp' = CreateResp(body, checked)
                 /\ UNCHANGED <<db, environ, videojob, threads, calls>>
            ELSE /\ Len(videojob) < cap
                 /\ videojob' = create_document(videojob, NewJobData(payload))
                 /\ IF checked = Passed
                    THEN /\ calls' = calls \cup {NewCall(job_id, body)}
                         /\ resp' = NoResp
                    ELSE /\ calls' = calls
                         /\ resp' = CreateResp(body, checked)
                 /\ UNCHANGED <<db, environ, threads>>

\* POST /api/jobs up to create_document: the body is rejected by the request
\* model or by one of the handler's checks, or the insert raises, or the job is
\* persisted (the handler then still has to start the thread and re-read the job)
CreateJob(body, cap) ==
    IF ~CreateJobRequestValid(body)
    THEN /\ resp' = CreateResp(body, HTTPException(422, "ValidationError", "invalid body"))
         /\ UNCHANGED <<db, environ, videojob, threads, calls>>
    ELSE LET payload == CreateJobRequest(body)
             checked == create_job_checks(payload, db, environ)
         IN IF checked # Passed
            THEN /\ resp' = CreateResp(body, checked)
                 /\ UNCHANGED <<db, environ, videojob, threads, calls>>
            ELSE /\ Len(videojob) < cap
                 /\ \/ /\ resp' = CreateResp(body,
                                     HTTPException(500, "InternalServerError", "insert raised"))
                       /\ UNCHANGED <<db, environ, videojob, threads, calls>>
                    \/ LET job_id == StrOfObjectId(Len(videojob) + 1)
                       IN /\ videojob' = create_document(videojob, NewJobData(payload))
                          /\ calls' = calls \cup {NewCall(job_id, body)}
                          /\ resp' = NoResp
                          /\ UNCHANGED <<db, environ, threads>>

\* t = threading.Thread(target=simulate_job, ...); t.start(): the thread is
\* started, or start raises RuntimeError (no thread can be started) and the
\* handler ends with the job persisted
CreateJobStart(c) ==
    /\ c \in calls /\ c.pc = "start"
    /\ \/ /\ threads' = Append(threads, NewThread(c.job_id, CreateJobRequest(c.body)))
          /\ calls' = (calls \ {c}) \cup {[c EXCEPT !.pc = "find_one"]}
          /\ resp' = NoResp
       \/ /\ resp' = CreateResp(c.body,
                          HTTPException(500, "InternalServerError", "can't start new thread"))
          /\ calls' = calls \ {c}
          /\ UNCHANGED threads
    /\ UNCHANGED <<db, environ, videojob>>

\* the rest of create_job: doc = find_one(job_id); return JobResponse(**to_str_id(doc))
CreateJobReturn(c) ==
    /\ c \in calls /\ c.pc = "find_one"
    /\ calls' = calls \ {c}
    /\ \/ resp' = CreateResp(c.body,
                      HTTPException(500, "InternalServerError", "find_one raised"))
       \/ LET doc == find_one(videojob, ObjectIdOf(c.job_id))
          IN resp' = IF doc = None
                     THEN CreateResp(c.body,
                              HTTPException(500, "InternalServerError", "no document"))
                     ELSE [op |-> "create", req |-> c.body, status_code |-> 200,
                           kind |-> "ok", detail |-> "",
                           job |-> JobResponse(to_str_id(doc[1]))]
    /\ UNCHANGED <<db, environ, videojob, threads>>

(***************************************************************************)
(* simulate_job: the thread create_job starts for each persisted job.      *)
(***************************************************************************)
\* the half rounded up in place of the floor division
WaitTimeCeil(duration) == Min(Max((duration + 1) \div 2, 2), 8)

\* wait_time = min(max(duration // 2, 2), 8)
WaitTime(duration) == Min(Max(duration \div 2, 2), 8)

SetThread(t, fields) == [threads EXCEPT ![t] = Merge(@, fields)]

\* {"$set": {"status": "processing"}}
ProcessingFields == [status |-> "processing"]

\* {"$set": {"status": "completed", "result_url": demo_url}}
CompletedFields == [status |-> "completed", result_url |-> Some(DemoUrl)]

\* mutant of FailedFields: the message is stored whole
FailedFieldsUncut(e) == [status |-> "failed", error |-> Some(e)]

\* {"$set": {"status": "failed", "error": str(e)[:200]}}
FailedFields(e) == [status |-> "failed", error |-> Some(Prefix(e, ErrorMaxLen))]

\* the thread has left simulate_job, by return or by an uncaught exception: its
\* locals are gone
ThreadEnd(how) == [pc |-> how, exc |-> None, wait_time |-> None]

\* the first statement of the try block: update_one(... status processing)
SimMarkProcessing(t) ==
    /\ t \in DOMAIN threads /\ threads[t].pc = "mark_processing"
    /\ \/ /\ ObjectIdValid(threads[t].job_id)
          /\ videojob' = update_one(videojob, ObjectIdOf(threads[t].job_id),
                                    ProcessingFields)
          /\ threads' = SetThread(t, [pc |-> "sleep"])
       \/ \E e \in StoreErrors :
             /\ threads' = SetThread(t, [pc |-> "except", exc |-> Some(e)])
             /\ UNCHANGED videojob
    /\ resp' = NoResp
    /\ UNCHANGED <<db, environ, calls>>

\* wait_time = ...; time.sleep(wait_time)
SimSleep(t) ==
    /\ t \in DOMAIN threads /\ threads[t].pc = "sleep"
    /\ threads' = SetThread(t, [pc |-> "mark_completed",
                                wait_time |-> Some(WaitTime(threads[t].duration))])
    /\ resp' = NoResp
    /\ UNCHANGED <<db, environ, videojob, calls>>

\* mutant of SimMarkCompleted: the update takes effect and the try block raises
\* after it, so the except block runs on a completed job
SimMarkCompletedThenRaise(t) ==
    /\ t \in DOMAIN threads /\ threads[t].pc = "mark_completed"
    /\ videojob' = update_one(videojob, ObjectIdOf(threads[t].job_id), CompletedFields)
    /\ \/ threads' = SetThread(t, ThreadEnd("returned"))
       \/ \E e \in StoreErrors : threads' = SetThread(t, [pc |-> "except", exc |-> Some(e)])
    /\ resp' = NoResp
    /\ UNCHANGED <<db, environ, calls>>

\* the last statement of the try block: update_one(... status completed, result_url)
SimMarkCompleted(t) ==
    /\ t \in DOMAIN threads /\ threads[t].pc = "mark_completed"
    /\ \/ /\ videojob' = update_one(videojob, ObjectIdOf(threads[t].job_id),
                                    CompletedFields)
          /\ threads' = SetThread(t, ThreadEnd("returned"))
       \/ \E e \in StoreErrors :
             /\ threads' = SetThread(t, [pc |-> "except", exc |-> Some(e)])
             /\ UNCHANGED videojob
    /\ resp' = NoResp
    /\ UNCHANGED <<db, environ, calls>>

\* the except block: update_one(... status failed, error str(e)[:200]); when this
\* update raises too, the exception leaves simulate_job and the thread ends
SimExcept(t) ==
    /\ t \in DOMAIN threads /\ threads[t].pc = "except"
    /\ \/ /\ videojob' = update_one(videojob, ObjectIdOf(threads[t].job_id),
                                    FailedFields(threads[t].exc[1]))
          /\ threads' = SetThread(t, ThreadEnd("returned"))
       \/ /\ threads' = SetThread(t, ThreadEnd("raised"))
             /\ UNCHANGED videojob
    /\ resp' = NoResp
    /\ UNCHANGED <<db, environ, calls>>

(***************************************************************************)
(* get_job and list_jobs.                                                  *)
(***************************************************************************)
\* lookup records what the handler's find_one did: "not called", "raised" or
\* "returned" (the client sees status_code and detail only)
GetResp(job_id, lookup, exc) ==
    [op |-> "get", job_id |-> job_id, lookup |-> lookup,
     status_code |-> exc.status_code, kind |-> exc.kind, detail |-> exc.detail]

\* GET /api/jobs/{job_id}
GetJob(job_id) ==
    /\ IF db = "none"
       THEN resp' = GetResp(job_id, "not called",
                        HTTPException(500, "StoreUnavailableError", "Database not configured"))
       ELSE IF ~ObjectIdValid(job_id)
       THEN resp' = GetResp(job_id, "not called",
                        HTTPException(400, "InvalidIdError", "Invalid job id"))
       ELSE \/ resp' = GetResp(job_id, "raised",
                           HTTPException(400, "InvalidIdError", "Invalid job id"))
            \/ LET doc == find_one(videojob, ObjectIdOf(job_id))
               IN resp' = IF doc = None
                          THEN GetResp(job_id, "returned",
                                   HTTPException(404, "NotFoundError", "Job not found"))
                          ELSE [op |-> "get", job_id |-> job_id, lookup |-> "returned",
                                status_code |-> 200, kind |-> "ok", detail |-> "",
                                job |-> JobResponse(to_str_id(doc[1]))]
    /\ UNCHANGED <<db, environ, videojob, threads, calls>>

\* the documents of coll by created_at, latest first
RECURSIVE SortByCreatedDesc(_)
SortByCreatedDesc(coll) ==
    IF coll = << >> THEN << >>
    ELSE LET m == CHOOSE i \in DOMAIN coll :
                     \A k \in DOMAIN coll :
                        \/ coll[k].created_at < coll[i].created_at
                        \/ coll[k].created_at = coll[i].created_at /\ i <= k
             rest == [k \in 1..(Len(coll) - 1) |-> IF k < m THEN coll[k] ELSE coll[k + 1]]
         IN <<coll[m]>> \o SortByCreatedDesc(rest)

\* cursor.limit(n): 0 is no limit, a negative n limits to -n
CursorLimit(docs, n) ==
    IF n = 0 THEN docs
    ELSE SubSeq(docs, 1, Min(Len(docs), IF n < 0 THEN -n ELSE n))

ListResp(limit, exc) ==
    [op |-> "list", limit |-> limit, status_code |-> exc.status_code,
     kind |-> exc.kind, detail |-> exc.detail]

\* GET /api/jobs?limit=N
ListJobs(limit) ==
    /\ IF db = "none"
       THEN resp' = ListResp(limit,
                        HTTPException(500, "StoreUnavailableError", "Database not configured"))
       ELSE \/ resp' = ListResp(limit,
                           HTTPException(500, "InternalServerError", "find raised"))
            \/ LET docs == CursorLimit(SortByCreatedDesc(videojob), limit)
               IN resp' = [op |-> "list", limit |-> limit, status_code |-> 200,
                           kind |-> "ok", detail |-> "",
                           jobs |-> [k \in DOMAIN docs |-> JobResponse(to_str_id(docs[k]))]]
    /\ UNCHANGED <<db, environ, videojob, threads, calls>>

(***************************************************************************)
(* The requests of the model.                                              *)
(***************************************************************************)
CatPrompt == Text("a cat", 5)

Images == <<"a.png", "b.png">>

\* the three creation scenarios of the specification's testable properties
ScenarioCat == [provider |-> "gemini", prompt |-> CatPrompt, duration |-> 10]

ScenarioDog == [provider |-> "sora2", prompt |-> Text("a dog", 5)]

ScenarioSeq ==
    [provider |-> "gemini", mode |-> "image_sequence_to_video", prompt |-> Text("seq", 3),
     image_urls |-> Some(Images)]

\* the bodies clients post while jobs run
Requests ==
    { ScenarioCat,
      ScenarioDog,
      [provider |-> "hailuo", mode |-> "multi_image_guided", prompt |-> CatPrompt],
      [provider |-> "grok", prompt |-> Text("hi", 2)] }

\* the ids clients ask for: every id a job may have, one no job has, one malformed
JobIds == {StrOfObjectId(n) : n \in 1..(MaxJobs + 1)} \cup {<<"bad", 0>>}

Limits == {-1, 0, 1, 20}

(***************************************************************************)
(* Every request body: the credential sources of each provider, the mode   *)
(* inputs, and both missing at once.                                       *)
(***************************************************************************)
Absent == << >>

\* api_keys not sent, {}, an empty key, a key for hailuo, a key for sora2
ApiKeysParts ==
    { Absent,
      [api_keys |-> Some(<< >>)],
      [api_keys |-> Some([hailuo |-> ""])],
      [api_keys |-> Some([hailuo |-> "rk"])],
      [api_keys |-> Some([sora2 |-> "rk"])] }

ModeParts == {Absent} \cup {[mode |-> m] : m \in Modes \ {"text_to_video"}}

ImageUrlsParts == {Absent, [image_urls |-> Some(<< >>)], [image_urls |-> Some(Images)]}

\* fps not sent, null, in range, out of range
FpsParts == {Absent, [fps |-> None], [fps |-> Some(12)], [fps |-> Some(0)]}

CredentialRequests ==
    { Merge([provider |-> p, prompt |-> CatPrompt], k) :
        p \in Providers, k \in ApiKeysParts }

ModeRequests ==
    { Merge(Merge(Merge([provider |-> "gemini", prompt |-> CatPrompt], m), i), f) :
        m \in ModeParts, i \in ImageUrlsParts, f \in FpsParts }

BothMissingRequests ==
    { Merge(Merge(Merge([provider |-> p, prompt |-> CatPrompt], m), i), f) :
        p \in {"hailuo", "sora2"}, m \in ModeParts \ {Absent},
        i \in ImageUrlsParts \ {[image_urls |-> Some(<< >>)]},
        f \in FpsParts \ {[fps |-> Some(12)], [fps |-> Some(0)]} }

AllRequests ==
    CredentialRequests \cup ModeRequests \cup BothMissingRequests
        \cup {ScenarioCat, ScenarioDog, ScenarioSeq}

Next ==
    \/ \E body \in Requests : CreateJob(body, MaxJobs)
    \/ \E c \in calls : CreateJobStart(c)
    \/ \E c \in calls : CreateJobReturn(c)
    \/ \E t \in DOMAIN threads : SimMarkProcessing(t)
    \/ \E t \in DOMAIN threads : SimSleep(t)
    \/ \E t \in DOMAIN threads : SimMarkCompleted(t)
    \/ \E t \in DOMAIN threads : SimExcept(t)
    \/ \E job_id \in JobIds : GetJob(job_id)
    \/ \E limit \in Limits : ListJobs(limit)

Spec == Init /\ [][Next]_vars

\* every step of the thread t
SimStep(t) == SimMarkProcessing(t) \/ SimSleep(t) \/ SimMarkCompleted(t) \/ SimExcept(t)

\* every step of a create_job call after its create_document
HandlerStep == \E c \in calls : CreateJobStart(c) \/ CreateJobReturn(c)

\* the threads are scheduled fairly: a thread that can take a step takes it, and
\* so does the worker thread of a handler
FairSpec ==
    Spec /\ WF_vars(HandlerStep) /\ \A t \in 1..MaxJobs : WF_vars(SimStep(t))

\* the program with every request body of AllRequests
NextCreate ==
    \/ \E body \in AllRequests : CreateJob(body, MaxCreateJobs)
    \/ \E c \in calls : CreateJobStart(c)
    \/ \E c \in calls : CreateJobReturn(c)
    \/ \E t \in DOMAIN threads : SimMarkProcessing(t)
    \/ \E t \in DOMAIN threads : SimSleep(t)
    \/ \E t \in DOMAIN threads : SimMarkCompleted(t)
    \/ \E t \in DOMAIN threads : SimExcept(t)
    \/ \E job_id \in JobIds : GetJob(job_id)
    \/ \E limit \in Limits : ListJobs(limit)

SpecCreate == Init /\ [][NextCreate]_vars

\* a request of every duration the model accepts, and of the two nearest it refuses
DurationRequests ==
    { [provider |-> "gemini", prompt |-> CatPrompt, duration |-> d] :
        d \in (DurationMin - 1)..(DurationMax + 1) }

\* create_job with a request of every duration, and the threads it starts
NextWait ==
    \/ \E body \in DurationRequests : CreateJob(body, MaxCreateJobs)
    \/ \E c \in calls : CreateJobStart(c)
    \/ \E c \in calls : CreateJobReturn(c)
    \/ \E t \in DOMAIN threads : SimMarkProcessing(t)
    \/ \E t \in DOMAIN threads : SimSleep(t)
    \/ \E t \in DOMAIN threads : SimMarkCompleted(t)
    \/ \E t \in DOMAIN threads : SimExcept(t)

SpecWait == Init /\ [][NextWait]_vars

(***************************************************************************)
(* Properties.                                                             *)
(***************************************************************************)
Terminal == {"completed", "failed"}

\* the stored document with the string id s
StoredJob(s) == videojob[CHOOSE j \in DOMAIN videojob : StrOfObjectId(videojob[j]._id) = s]

IsStored(s) == \E j \in DOMAIN videojob : StrOfObjectId(videojob[j]._id) = s

\* C1: the Job a successful create returns has status queued and result_url and
\* error both null, whatever the thread it started has done by then.
C1_CreateReturnsQueued ==
    (resp.op = "create" /\ resp.kind = "ok") =>
        /\ resp.job.status = "queued"
        /\ resp.job.result_url = None
        /\ resp.job.error = None

AllowedTransitions ==
    { <<"queued", "processing">>, <<"processing", "completed">>, <<"processing", "failed">> }

\* C2: every change of a stored job's status is queued -> processing,
\* processing -> completed or processing -> failed, also when a store update raises.
C2_OnlyAllowedTransitions ==
    [][\A j \in DOMAIN videojob :
          videojob'[j].status # videojob[j].status =>
              <<videojob[j].status, videojob'[j].status>> \in AllowedTransitions]_vars

\* C3: once a stored job is completed or failed, no step changes its status,
\* result_url or error; and a get or list that succeeds reports each job with the
\* status stored at that moment, so a poll after a terminal one is terminal too.
C3_TerminalIsAbsorbing ==
    [][/\ \A j \in DOMAIN videojob :
             videojob[j].status \in Terminal =>
                 /\ videojob'[j].status = videojob[j].status
                 /\ videojob'[j].result_url = videojob[j].result_url
                 /\ videojob'[j].error = videojob[j].error
       /\ (resp'.op = "get" /\ resp'.kind = "ok") =>
             /\ IsStored(resp'.job.id)
             /\ resp'.job.status = StoredJob(resp'.job.id).status
             /\ resp'.job.status \in Terminal <=> StoredJob(resp'.job.id).status \in Terminal
       /\ (resp'.op = "list" /\ resp'.kind = "ok") =>
             \A k \in DOMAIN resp'.jobs :
                 /\ IsStored(resp'.jobs[k].id)
                 /\ resp'.jobs[k].status = StoredJob(resp'.jobs[k].id).status]_vars

\* C3 witness: a get has just reported job 1 as terminal, after its thread ended
\* and while the thread of job 2 is still running.
C3_Witness ==
    /\ resp.op = "get" /\ resp.kind = "ok"
    /\ resp.job.id = StrOfObjectId(1) /\ resp.job.status \in Terminal
    /\ Len(threads) = 2
    /\ threads[1].pc \in {"returned", "raised"}
    /\ threads[2].pc = "mark_completed"

\* C4: a completed job has a result_url and no error; a failed job has an error
\* of at most 200 characters and no result_url; a queued or processing job has
\* neither.
C4_TerminalFieldsMatchStatus ==
    \A j \in DOMAIN videojob :
        LET d == videojob[j]
        IN /\ d.status = "completed" => d.result_url # None /\ d.error = None
           /\ d.status = "failed" =>
                 d.error # None /\ d.error[1].len <= 200 /\ d.result_url = None
           /\ d.status \in {"queued", "processing"} => d.result_url = None /\ d.error = None

\* C4 witness: one job failed with an error message cut to 200 characters, one
\* job completed.
C4_Witness ==
    /\ \E j \in DOMAIN videojob :
          videojob[j].status = "failed" /\ videojob[j].error[1].len = 200
    /\ \E j \in DOMAIN videojob : videojob[j].status = "completed"

\* the job the thread t was started for is completed or failed
JobTerminal(t) ==
    /\ t \in DOMAIN threads
    /\ StoredJob(threads[t].job_id).status \in Terminal

\* C5: under fair scheduling of the threads, every job that was persisted and
\* whose thread was started eventually reaches completed or failed, also when a
\* step of its execution raises.
C5_EveryJobBecomesTerminal ==
    \A t \in 1..MaxJobs : [](t \in DOMAIN threads => <>JobTerminal(t))

(***************************************************************************)
(* Properties of create_job's checks (SpecCreate).                         *)
(***************************************************************************)
ModeOf(body) == IF "mode" \in DOMAIN body THEN body.mode ELSE "text_to_video"

HasImages(body) ==
    /\ "image_urls" \in DOMAIN body
    /\ body.image_urls # None
    /\ body.image_urls[1] # << >>

\* the body carries a non-empty api_keys entry for its own provider
HasRequestKey(body) ==
    /\ "api_keys" \in DOMAIN body
    /\ body.api_keys # None
    /\ body.provider \in DOMAIN body.api_keys[1]
    /\ body.api_keys[1][body.provider] # ""

\* the environment variable of the body's provider is set and not empty
HasEnvKey(body) ==
    LET v == IF body.provider = "hailuo" THEN environ.HAILUO_API_KEY ELSE environ.SORA_API_KEY
    IN v # None /\ v # Some("")

LacksCredential(body) ==
    body.provider \in {"hailuo", "sora2"} /\ ~HasEnvKey(body) /\ ~HasRequestKey(body)

\* mode image_sequence_to_video, a non-empty image_urls, and no fps field
SeqWithoutFps(body) ==
    ModeOf(body) = "image_sequence_to_video" /\ HasImages(body) /\ "fps" \notin DOMAIN body

\* C6: create with mode image_sequence_to_video, a non-empty image_urls and no fps
\* field creates no job and, when the store is configured, the credential check
\* passes and no store call raises, fails with MissingInputError.
C6_SeqWithoutFpsIsRejected ==
    /\ \A c \in calls : ~SeqWithoutFps(c.body)
    /\ (resp.op = "create" /\ SeqWithoutFps(resp.req) /\ db = "handle"
            /\ ~LacksCredential(resp.req) /\ resp.kind # "InternalServerError") =>
           resp.kind = "MissingInputError"

\* C7: with the store configured, create answers a well-formed request for hailuo
\* or sora2 with CredentialMissingError exactly when neither the provider's
\* environment variable nor the request's api_keys entry for that provider is
\* set and non-empty; for gemini, wan2_1 and grok it never does.
C7_CredentialRequiredExactly ==
    (resp.op = "create" /\ resp.kind # "ValidationError" /\ db = "handle") =>
        IF resp.req.provider \in {"hailuo", "sora2"}
        THEN resp.kind = "CredentialMissingError" <=>
                 (~HasEnvKey(resp.req) /\ ~HasRequestKey(resp.req))
        ELSE resp.kind # "CredentialMissingError"

\* C7 witness: hailuo was refused although HAILUO_API_KEY is set (to the empty
\* string) and the request carries a key (for sora2).
C7_Witness ==
    /\ resp.op = "create" /\ resp.kind = "CredentialMissingError"
    /\ resp.req.provider = "hailuo"
    /\ environ.HAILUO_API_KEY = Some("")
    /\ "api_keys" \in DOMAIN resp.req /\ resp.req.api_keys = Some([sora2 |-> "rk"])

RefusedKinds ==
    {"ValidationError", "StoreUnavailableError", "CredentialMissingError", "MissingInputError"}

\* C8: a create that fails with store unavailable, CredentialMissingError or
\* MissingInputError (or on its body's field constraints) leaves the stored jobs
\* and the started executions as they were.
C8_FailedCreateChangesNothing ==
    [][(resp'.op = "create" /\ resp'.kind \in RefusedKinds) =>
           /\ videojob' = videojob
           /\ threads' = threads
           /\ calls' = calls]_vars

\* C8 witness: create has just failed with MissingInputError while a job is
\* stored and its execution is running.
C8_Witness ==
    /\ resp.op = "create" /\ resp.kind = "MissingInputError"
    /\ Len(videojob) = 1 /\ videojob[1].status = "processing"
    /\ Len(threads) = 1 /\ threads[1].pc = "sleep"

\* C9: a well-formed request with a mode other than text_to_video and image_urls
\* absent or empty is never persisted and fails with MissingInputError (unless
\* the store or the credential check, which come first, already failed); a
\* text_to_video request never fails with MissingInputError.
C9_ImagesRequiredUnlessTextToVideo ==
    /\ \A c \in calls : ModeOf(c.body) # "text_to_video" => HasImages(c.body)
    /\ (resp.op = "create" /\ resp.kind # "ValidationError") =>
          /\ (ModeOf(resp.req) # "text_to_video" /\ ~HasImages(resp.req)) =>
                \/ db = "none" /\ resp.kind = "StoreUnavailableError"
                \/ db = "handle" /\ LacksCredential(resp.req)
                      /\ resp.kind = "CredentialMissingError"
                \/ db = "handle" /\ ~LacksCredential(resp.req)
                      /\ resp.kind = "MissingInputError"
                      /\ resp.detail = "image_urls is required for selected mode"
          /\ ModeOf(resp.req) = "text_to_video" => resp.kind # "MissingInputError"

\* C9 witness: multi_image_guided with an empty image_urls list was refused with
\* MissingInputError.
C9_Witness ==
    /\ resp.op = "create" /\ resp.kind = "MissingInputError"
    /\ ModeOf(resp.req) = "multi_image_guided"
    /\ "image_urls" \in DOMAIN resp.req /\ resp.req.image_urls = Some(<< >>)

(***************************************************************************)
(* Properties of dispatch (Spec).                                          *)
(***************************************************************************)
ThreadsOf(s) == {t \in DOMAIN threads : threads[t].job_id = s}

\* the create_job call for the job with the string id s has not reached t.start()
StartPending(s) == \E c \in calls : c.job_id = s /\ c.pc = "start"

\* C10: every persisted job has exactly one execution, started by the create
\* call that persisted it (none yet while that call has still to start it), and
\* no execution is started for anything but a stored job.
C10_OneExecutionPerJob ==
    /\ \A j \in DOMAIN videojob :
          LET s == StrOfObjectId(videojob[j]._id)
          IN Cardinality(ThreadsOf(s)) = IF StartPending(s) THEN 0 ELSE 1
    /\ \A t \in DOMAIN threads : IsStored(threads[t].job_id)

\* C11: a successful list(limit=N) returns at most N jobs, for N zero and
\* negative too (no jobs then), and the jobs it returns are the most recently
\* created ones, latest first.
C11_ListReturnsAtMostLimit ==
    (resp.op = "list" /\ resp.kind = "ok") =>
        /\ Len(resp.jobs) <= Max(resp.limit, 0)
        /\ \A k \in 1..(Len(resp.jobs) - 1) :
              resp.jobs[k].created_at[2] >= resp.jobs[k + 1].created_at[2]
        /\ \A j \in DOMAIN videojob :
              \/ \E k \in DOMAIN resp.jobs : resp.jobs[k].id = StrOfObjectId(videojob[j]._id)
              \/ \A k \in DOMAIN resp.jobs :
                    resp.jobs[k].created_at[2] >= videojob[j].created_at

\* the job or jobs the response of the last request carries
ReturnedJobs ==
    IF resp.op \in {"create", "get"} /\ resp.kind = "ok" THEN {resp.job}
    ELSE IF resp.op = "list" /\ resp.kind = "ok" THEN {resp.jobs[k] : k \in DOMAIN resp.jobs}
    ELSE {}

\* C12: no stored job has the field api_keys, and no job create, get or list
\* returns has it, whatever keys the request that created the job carried.
C12_ApiKeysNeverStoredOrReturned ==
    /\ \A j \in DOMAIN videojob : "api_keys" \notin DOMAIN videojob[j]
    /\ \A job \in ReturnedJobs : "api_keys" \notin DOMAIN job

\* get returns the job of a request that carried a key, before create has answered
C12_Witness ==
    /\ resp.op = "get" /\ resp.kind = "ok"
    /\ \E c \in calls :
          /\ "api_keys" \in DOMAIN c.body
          /\ c.body.api_keys = Some([hailuo |-> "rk"])
          /\ resp.job.id = c.job_id
          /\ StoredJob(c.job_id).provider = c.body.provider

\* C13: with the store configured and the lookup returning, get(id) answers
\* 400 InvalidIdError for a malformed id, 404 NotFoundError for a well-formed id
\* of no stored job, and for the id of a stored job that job with the status it
\* has in the store; and no get, whatever its answer, changes the store.
C13_GetAnswersById ==
    [][resp'.op = "get" =>
          /\ videojob' = videojob
          /\ (db = "handle" /\ resp'.lookup # "raised") =>
                LET job_id == resp'.job_id
                IN /\ ~ObjectIdValid(job_id) =>
                         resp'.status_code = 400 /\ resp'.kind = "InvalidIdError"
                   /\ (ObjectIdValid(job_id) /\ ~IsStored(job_id)) =>
                         resp'.status_code = 404 /\ resp'.kind = "NotFoundError"
                   /\ IsStored(job_id) =>
                         /\ resp'.status_code = 200 /\ resp'.kind = "ok"
                         /\ resp'.job.id = job_id
                         /\ resp'.job.status = StoredJob(job_id).status
                         /\ resp'.job = JobResponse(to_str_id(StoredJob(job_id)))]_vars

\* get returns the second of two stored jobs, completed, while the first is processing
C13_Witness ==
    /\ Len(videojob) = 2
    /\ videojob[1].status = "processing"
    /\ resp.op = "get" /\ resp.kind = "ok" /\ resp.lookup = "returned"
    /\ resp.job.id = StrOfObjectId(videojob[2]._id)
    /\ resp.job.status = "completed" /\ videojob[2].status = "completed"

\* the fields of a stored job that create_job persists and no one writes again
PersistedFields ==
    {"_id", "provider", "mode", "prompt", "aspect_ratio", "duration", "image_urls",
     "fps", "created_at"}

\* C14: no step changes id, provider, mode, prompt, aspect_ratio, duration,
\* image_urls, fps or created_at of a stored job, nor removes a job: the
\* executions change status, result_url and error only.
C14_ExecutionKeepsPersistedFields ==
    [][\A j \in DOMAIN videojob :
          /\ j \in DOMAIN videojob'
          /\ DOMAIN videojob'[j] = DOMAIN videojob[j]
          /\ \A f \in PersistedFields : videojob'[j][f] = videojob[j][f]
          /\ \A f \in DOMAIN videojob[j] :
                videojob'[j][f] # videojob[j][f] =>
                    /\ f \in {"status", "result_url", "error"}
                    /\ \E t \in DOMAIN threads :
                          /\ threads'[t] # threads[t]
                          /\ ObjectIdOf(threads[t].job_id) = videojob[j]._id]_vars

\* both executions are over: the cat job failed and the dog job completed, each
\* with the fields its request had
C14_Witness ==
    /\ Len(videojob) = 2
    /\ videojob[1].status = "failed" /\ videojob[1].provider = "gemini"
    /\ videojob[1].duration = 10 /\ videojob[1].prompt = CatPrompt
    /\ videojob[2].status = "completed" /\ videojob[2].provider = "sora2"
    /\ videojob[2].duration = DefaultDuration /\ videojob[2].fps = Some(DefaultFps)
    /\ \A t \in DOMAIN threads : threads[t].pc = "returned"

\* the thread t has not left simulate_job
Running(t) == threads[t].pc \notin {"returned", "raised"}

\* C15: the executions are independent. A step of a thread changes no record
\* but the one whose id the thread was dispatched with, and no other thread; a
\* running thread can always take its next step, whatever the other jobs and
\* threads are at; and create, get and list can be served in every state, those
\* with threads suspended in the generation step included.
C15_ExecutionsAreIndependent ==
    /\ [][\A t \in DOMAIN threads :
             threads'[t] # threads[t] =>
                /\ \A j \in DOMAIN videojob :
                      videojob[j]._id # ObjectIdOf(threads[t].job_id) =>
                          videojob'[j] = videojob[j]
                /\ \A u \in DOMAIN threads \ {t} : threads'[u] = threads[u]]_vars
    /\ [](\A t \in DOMAIN threads : Running(t) => ENABLED SimStep(t))
    /\ [](/\ \A job_id \in JobIds : ENABLED GetJob(job_id)
          /\ \A limit \in Limits : ENABLED ListJobs(limit)
          /\ Len(videojob) < MaxJobs => ENABLED CreateJob(ScenarioCat, MaxJobs))

\* the second job is completed while the first, created before it, is still
\* queued with its thread not yet run
C15_Witness ==
    /\ Len(videojob) = 2 /\ Len(threads) = 2
    /\ videojob[1].status = "queued" /\ threads[1].pc = "mark_processing"
    /\ threads[1].job_id = StrOfObjectId(videojob[1]._id)
    /\ videojob[2].status = "completed" /\ threads[2].pc = "returned"
    /\ threads[2].job_id = StrOfObjectId(videojob[2]._id)

\* the try block of thread t has raised while its job was processing, and the
\* except block has the exception in hand
CaughtWhileProcessing(t) ==
    /\ t \in DOMAIN threads /\ threads[t].pc = "except"
    /\ StoredJob(threads[t].job_id).status = "processing"

\* the job of thread t is failed, with an error of at most 200 characters and no result
FailureRecorded(t) ==
    /\ t \in DOMAIN threads
    /\ LET job == StoredJob(threads[t].job_id)
       IN /\ job.status = "failed"
          /\ job.error # None /\ job.error[1].len <= ErrorMaxLen
          /\ job.result_url = None

\* the job of thread t is completed
JobCompleted(t) ==
    /\ t \in DOMAIN threads
    /\ StoredJob(threads[t].job_id).status = "completed"

\* C16: under fair scheduling, when the try block of an execution raises while
\* its job is processing, the job becomes failed with the error's message cut
\* to at most 200 characters and result_url null, and it is never completed.
C16_RaiseWhileProcessingIsRecorded ==
    \A t \in 1..MaxJobs :
        /\ CaughtWhileProcessing(t) ~> FailureRecorded(t)
        /\ [](CaughtWhileProcessing(t) => [](~JobCompleted(t)))

(***************************************************************************)
(* The wait of simulate_job (SpecWait).                                    *)
(***************************************************************************)
\* the threads that have computed their wait
Waited == {t \in DOMAIN threads : threads[t].wait_time # None}

\* C17 as claimed: for every duration in 1..60 the wait is the exact half of the
\* duration clamped to [2, 8] (2.5 for duration 5), that is, twice the wait is
\* the duration clamped to [4, 16]; and the wait is between 2 and 8.
C17_WaitIsExactHalf ==
    \A t \in Waited :
        LET d == threads[t].duration
            w == threads[t].wait_time[1]
        IN /\ 2 * w = Min(Max(d, 4), 16)
           /\ 2 <= w /\ w <= 8

\* C17 (amended): for every duration in 1..60 the wait is the half of the
\* duration rounded down to an integer, clamped to [2, 8]: 2 for durations up
\* to 5, 8 for durations from 16, and between them the w with 2w <= d <= 2w + 1.
C17_WaitIsFlooredHalf ==
    \A t \in Waited :
        LET d == threads[t].duration
            w == threads[t].wait_time[1]
        IN /\ d \in DurationMin..DurationMax
           /\ w \in 2..8
           /\ d <= 5 => w = 2
           /\ d >= 16 => w = 8
           /\ (4 <= d /\ d <= 17) => (2 * w <= d /\ d <= 2 * w + 1)

\* a job of duration 5 whose thread has slept 2
C17_Witness ==
    \E t \in Waited :
        /\ threads[t].duration = 5 /\ threads[t].wait_time = Some(2)
        /\ StoredJob(threads[t].job_id).duration = 5
        /\ StoredJob(threads[t].job_id).status = "processing"

(***************************************************************************)
(* The order of create_job's checks (SpecCreate).                          *)
(***************************************************************************)
\* the body sends fps: null (a body without the field gets the default)
FpsNull(body) == "fps" \in DOMAIN body /\ body.fps = None

\* an input the mode of the body requires is missing
ModeInputMissing(body) ==
    \/ ModeOf(body) # "text_to_video" /\ ~HasImages(body)
    \/ ModeOf(body) = "image_sequence_to_video" /\ FpsNull(body)

\* C18: create reports the first failing check only. With the store configured,
\* a body that passes validation and lacks both its provider's credential and
\* an input of its mode is refused with CredentialMissingError; and a body with
\* a credential, in mode image_sequence_to_video, that lacks both image_urls and
\* fps is refused with the MissingInputError of image_urls.
C18_FirstFailingCheckIsReported ==
    (resp.op = "create" /\ resp.kind # "ValidationError" /\ db = "handle") =>
        /\ (LacksCredential(resp.req) /\ ModeInputMissing(resp.req)) =>
              /\ resp.status_code = 422
              /\ resp.kind = "CredentialMissingError"
        /\ (/\ ~LacksCredential(resp.req)
            /\ ModeOf(resp.req) = "image_sequence_to_video"
            /\ ~HasImages(resp.req) /\ FpsNull(resp.req)) =>
              /\ resp.status_code = 422
              /\ resp.kind = "MissingInputError"
              /\ resp.detail = "image_urls is required for selected mode"

\* a sora2 request without credential, image_urls and fps was refused for the credential
C18_Witness ==
    /\ resp.op = "create" /\ resp.kind = "CredentialMissingError"
    /\ resp.req.provider = "sora2" /\ LacksCredential(resp.req)
    /\ ModeOf(resp.req) = "image_sequence_to_video"
    /\ ~HasImages(resp.req) /\ FpsNull(resp.req)
    /\ videojob = << >>

\* C19: get answers InvalidIdError (400) for a malformed id only; for a
\* well-formed id it never does, also when the store lookup fails.
C19_InvalidIdOnlyForMalformedId ==
    (resp.op = "get" /\ (resp.kind = "InvalidIdError" \/ resp.status_code = 400)) =>
        ~ObjectIdValid(resp.job_id)

====
